---------------------------- MODULE Spec2Model ----------------------------
(***************************************************************************)
(* Verification model of cardputer-voice: the Web Serial host application *)
(* (app.js, src/unnamed/part_000), the Whisper worker with peak            *)
(* normalisation (worker.js, src/unnamed/part_001 lines 75-155).           *)
(*                                                                         *)
(* Three specifications share the module:                                  *)
(*   SpecFrame  the framing of the inbound byte stream (findEOF and the    *)
(*              inner read loop of receiveLoop) over every byte sequence   *)
(*              and every chunking of it;                                  *)
(*   SpecNorm   the worker's transcribe(): peak scan, scale, conversion;   *)
(*   Spec       the application: connect / disconnect, receiveLoop,        *)
(*              the worker, worker.onmessage and sendText.                 *)
(*                                                                         *)
(* JavaScript runs each task to completion, so one action is the code      *)
(* executed between two awaits.                                            *)
(***************************************************************************)
EXTENDS Integers, Sequences, FiniteSets, TLC

VARIABLES
    \* ---- SpecFrame
    fStream,        \* the device's whole byte stream
    fPos,           \* how many of its bytes have been delivered by reader.read()
    fBuf,           \* audioBytes of receiveLoop
    fEof,           \* eofIdx of the chunk that ended the inner loop, -1 while reading
    fReads,         \* history: number of reader.read() results so far
    \* ---- SpecNorm
    nAudio,         \* audioData, the Int16Array handed to transcribe()
    nPc,            \* position in transcribe(): "peak", "convert", "done"
    nI,             \* loop index i
    nPeak,          \* peak
    nScale,         \* scale, a rational <<numerator, denominator>>
    nOut,           \* float32, as rationals <<numerator, denominator>>
    \* ---- SpecPcm
    pBytes,         \* audioBytes of an ended recording
    pPc,            \* position in lines 188-193: "convert", "done"
    pCombined,      \* combined, the Int16Array
    \* ---- Spec: app.js module state (part_000 lines 19-21) and the DOM it sets
    port,           \* `port`: 0 is null, otherwise a SerialPort
    modelReady,     \* `modelReady`
    btn,            \* btnConnect.onclick: "connect" or "disconnect"
    status,         \* the last setStatus() text
    display,        \* the lines appendTranscript() added
    listening,      \* a 'disconnect' listener is registered on navigator.serial
    connPc,         \* connect(): "idle", or awaiting port.open(): "opening" / "failing"
    connPort,       \* the port whose open() connect() awaits
    discPc,         \* disconnect(): "idle", or "closing" while awaiting p.close()
    loops,          \* the receiveLoop() activations
    \* ---- Spec: the platform (Web Serial streams, the worker, its channels)
    portOpen,       \* per port: open (readable and writable are non-null)
    rlock,          \* per port: the loop holding the reader of its readable stream
    wlock,          \* per port: the request whose sendText holds the writer
    evDisc,         \* ports with a 'disconnect' event queued for the main thread
    wpc,            \* worker init(): "loading", "ready" (transcriber set), "failed"
    toWorker,       \* messages posted to the worker, not yet handled by it
    fromWorker,     \* messages (and error events) of the worker, not yet handled
    \* ---- Spec: history, written and never read by the program
    nreq,           \* number of 'transcribe' messages posted so far
    sess,           \* number of successful port.open() so far
    openedIn,       \* per port: the successful open() (counted by sess) that opened it last
    written,        \* the writer.write() calls, in order
    handled,        \* per request: how its 'transcript' was handled
    failed,         \* requests whose inference call rejected
    orphan,         \* requests that were in flight when the transport disconnected
    errShown,       \* an error status was surfaced by the worker handlers
    everDown,       \* a port was lost or a disconnect was handled
    ev,             \* what the last step did to a recording
    \* ---- SpecUsb: sw.js (WebUSB page) module state, lines 64-69, and receiveLoop
    device,         \* `device`: FALSE is null
    uModelReady,    \* `modelReady` of the WebUSB page
    recording,      \* `recording`
    uStatus,        \* the last setStatus() text of the WebUSB page
    audioChunks,    \* audioChunks of receiveLoop: a sequence of Int16Arrays
    uPc,            \* receiveLoop: "first" (line 214), "drain" (line 235), "exited"
    uStream,        \* the bytes the device sends on its bulk IN endpoint
    uPos,           \* how many of them have been delivered by transferIn
    uCut,           \* history: stream offsets of the transfers taken as EOF
    uPosted,        \* history: audioData of the 'transcribe' messages, in order
    uAnswered,      \* how many of them the worker has answered
    uResults,       \* 'transcript' messages on their way to the page
    uHandled        \* history: per handled 'transcript', its text and transfers

frameVars == <<fStream, fPos, fBuf, fEof, fReads>>
normVars  == <<nAudio, nPc, nI, nPeak, nScale, nOut>>
mainVars  == <<port, modelReady, btn, status, display, listening, connPc, connPort,
               discPc, loops>>
platVars  == <<portOpen, rlock, wlock, evDisc, wpc, toWorker, fromWorker>>
histNoEv  == <<nreq, sess, openedIn, written, handled, failed, orphan, errShown, everDown>>
histVars  == <<nreq, sess, openedIn, written, handled, failed, orphan, errShown, everDown, ev>>
appVars   == <<mainVars, platVars, histVars>>
pcmVars   == <<pBytes, pPc, pCombined>>
usbVars   == <<device, uModelReady, recording, uStatus, audioChunks, uPc, uStream,
               uPos, uCut, uPosted, uAnswered, uResults, uHandled>>
pureVars  == <<frameVars, normVars, pcmVars, usbVars>>
vars      == <<frameVars, normVars, pcmVars, appVars, usbVars>>

-----------------------------------------------------------------------------
(* Bounds *)

MaxStream  == 6     \* longest inbound byte stream of SpecFrame
MaxSamples == 3     \* longest sample buffer of SpecNorm
MaxPcm     == 4     \* longest recording of SpecPcm
NumPorts   == 1     \* serial ports the user can choose from
MaxLoops   == 2     \* receiveLoop() activations alive at the same time
MaxSess    == 2     \* successful connects in one run
MaxReq     == 2     \* 'transcribe' messages posted in one run
MaxPayload == 4     \* most bytes before the sentinel in a stream of SpecUsb
MaxAfter   == 2     \* most bytes behind the sentinel in a stream of SpecUsb

-----------------------------------------------------------------------------
(* Bytes and the EOF marker: part_000 line 8 *)

EOF_MARKER == <<255, 254, 253, 252>>

\* the marker's bytes and one PCM payload byte
FrameBytes == {255, 254, 253, 252, 16}

\* all sequences over S of length at most n
SeqsUpTo(S, n) == UNION {[1..k -> S] : k \in 0..n}

-----------------------------------------------------------------------------
(* findEOF: part_000 lines 30-36.  Indices are the code's (0-based); the   *)
(* sequence bytes is 1-based, so bytes[i] of the code is bytes[i+1] here.  *)

\* the test of lines 32-33 at index i
MarkerAt(bytes, i) ==
    /\ bytes[i + 1] = 255 /\ bytes[i + 2] = 254
    /\ bytes[i + 3] = 253 /\ bytes[i + 4] = 252

\* the first index in lo .. hi that passes the test, or -1
FirstMarker(bytes, lo, hi) ==
    IF \E i \in lo..hi : MarkerAt(bytes, i)
    THEN CHOOSE i \in lo..hi : MarkerAt(bytes, i) /\ \A j \in lo..(i - 1) : ~MarkerAt(bytes, j)
    ELSE -1

\* the slip "i < bytes.length - 4": a marker at the very end is not seen
findEOF_short(bytes) == FirstMarker(bytes, 0, Len(bytes) - 5)

\* the slip of scanning only the newest bytes (here: the last four)
findEOF_tail(bytes) ==
    IF Len(bytes) >= 4 /\ MarkerAt(bytes, Len(bytes) - 4) THEN Len(bytes) - 4 ELSE -1

\* for (let i = 0; i <= bytes.length - 4; i++)
\* (the loop runs i upwards and returns at the first match)
findEOF(bytes) == FirstMarker(bytes, 0, Len(bytes) - 4)

\* the slip of cutting the buffer behind the marker
SliceThrough(bytes, n) == SubSeq(bytes, 1, n + 4)

\* audioBytes.slice(0, eofIdx): part_000 line 163
SliceTo(bytes, n) == SubSeq(bytes, 1, n)

\* `for (const b of value) audioBytes.push(b)`: part_000 line 152
PushAll(audioBytes, value) == audioBytes \o value

-----------------------------------------------------------------------------
(* SpecFrame: the inner read loop of receiveLoop (part_000 lines 146-166)  *)
(* fed one stream in every possible chunking.                              *)

InitFrame ==
    /\ fStream \in SeqsUpTo(FrameBytes, MaxStream)
    /\ fPos = 0
    /\ fBuf = <<>>
    /\ fEof = -1
    /\ fReads = 0

\* reader.read() resolves with the next n bytes of the stream
FrameRead(n) ==
    /\ fEof = -1
    /\ fPos + n <= Len(fStream)
    /\ LET value  == SubSeq(fStream, fPos + 1, fPos + n)
           pushed == PushAll(fBuf, value)
           eofIdx == findEOF(pushed)
       IN  /\ fPos' = fPos + n
           /\ fEof' = eofIdx
           /\ fBuf' = IF eofIdx # -1 THEN SliceTo(pushed, eofIdx) ELSE pushed
    /\ fReads' = fReads + 1
    /\ UNCHANGED <<fStream, normVars, pcmVars, appVars, usbVars>>

NextFrame == \E n \in 1..MaxStream : FrameRead(n)

-----------------------------------------------------------------------------
(* SpecNorm: transcribe() of the worker, part_001 lines 113-141.           *)
(* Numbers are exact rationals <<num, den>>; the Float32 rounding of the   *)
(* products is monotone and 1.0 is a Float32, so a bound by 1 carries over.*)

\* Math.abs
Abs(x) == IF x < 0 THEN -x ELSE x

\* the slip of leaving Math.abs out of the peak scan
AbsMissing(x) == x

\* Math.abs(audioData[i]) of line 123
SampleAbs(x) == Abs(x)

\* the noise floor of line 127
NoiseFloor == 50

Int16Scale == 32768

\* the slip of scaling by 0.9 / peak whatever the peak is
ScaleOfNoFloor(peak) == <<9, 10 * peak>>

\* line 127: peak > 50 ? 0.9 / peak : 1.0 / 32768.0
ScaleOf(peak) == IF peak > NoiseFloor THEN <<9, 10 * peak>> ELSE <<1, Int16Scale>>

\* audioData[i] * scale
Times(x, scale) == <<x * scale[1], scale[2]>>

SampleValues == {-32768, -51, -50, 0, 50, 51, 16000, 32767}

InitNorm ==
    /\ nAudio \in SeqsUpTo(SampleValues, MaxSamples)
    /\ nPc = "peak"
    /\ nI = 0
    /\ nPeak = 0
    /\ nScale = <<0, 0>>
    /\ nOut = <<>>

\* one iteration of the peak scan, lines 122-125
NormPeakStep ==
    /\ nPc = "peak"
    /\ nI < Len(nAudio)
    /\ LET abs == SampleAbs(nAudio[nI + 1])
       IN  nPeak' = IF abs > nPeak THEN abs ELSE nPeak
    /\ nI' = nI + 1
    /\ UNCHANGED <<nAudio, nPc, nScale, nOut, frameVars, pcmVars, appVars, usbVars>>

\* lines 126-128
NormScale ==
    /\ nPc = "peak"
    /\ ~(nI < Len(nAudio))
    /\ nScale' = ScaleOf(nPeak)
    /\ nPc' = "convert"
    /\ nI' = 0
    /\ UNCHANGED <<nAudio, nPeak, nOut, frameVars, pcmVars, appVars, usbVars>>

\* one iteration of the conversion loop, lines 129-131
NormConvertStep ==
    /\ nPc = "convert"
    /\ nI < Len(nAudio)
    /\ nOut' = Append(nOut, Times(nAudio[nI + 1], nScale))
    /\ nI' = nI + 1
    /\ UNCHANGED <<nAudio, nPc, nPeak, nScale, frameVars, pcmVars, appVars, usbVars>>

\* the loop ends; float32 is handed to the transcriber, line 133
NormDone ==
    /\ nPc = "convert"
    /\ ~(nI < Len(nAudio))
    /\ nPc' = "done"
    /\ UNCHANGED <<nAudio, nI, nPeak, nScale, nOut, frameVars, pcmVars, appVars, usbVars>>

NextNorm ==
    \/ NormPeakStep
    \/ NormScale
    \/ NormConvertStep
    \/ NormDone

-----------------------------------------------------------------------------
(* Text: strings are sequences of Unicode code points.                     *)

\* White space and line terminators, what String.prototype.trim() strips
IsWhite(c) ==
    c \in {9, 10, 11, 12, 13, 32, 160, 5760, 8232, 8233, 8239, 8287, 12288, 65279}
          \cup (8192..8202)

RECURSIVE TrimStart(_)
TrimStart(t) ==
    IF t # <<>> /\ IsWhite(Head(t)) THEN TrimStart(Tail(t)) ELSE t

RECURSIVE TrimEnd(_)
TrimEnd(t) ==
    IF t # <<>> /\ IsWhite(t[Len(t)]) THEN TrimEnd(SubSeq(t, 1, Len(t) - 1)) ELSE t

\* String.prototype.trim()
Trim(t) == TrimEnd(TrimStart(t))

\* the UTF-8 bytes of one code point
Utf8Char(c) ==
    IF c < 128 THEN <<c>>
    ELSE IF c < 2048 THEN <<192 + (c \div 64), 128 + (c % 64)>>
    ELSE IF c < 65536
         THEN <<224 + (c \div 4096), 128 + ((c \div 64) % 64), 128 + (c % 64)>>
         ELSE <<240 + (c \div 262144), 128 + ((c \div 4096) % 64),
                128 + ((c \div 64) % 64), 128 + (c % 64)>>

\* new TextEncoder().encode(text)
RECURSIVE Utf8(_)
Utf8(t) == IF t = <<>> THEN <<>> ELSE Utf8Char(Head(t)) \o Utf8(Tail(t))

\* the slip of writing the text without its '\0'
FrameReplyNoNul(text) == Utf8(text)

\* sendText, part_000 line 210: new TextEncoder().encode(text + '\0')
FrameReply(text) == Utf8(text \o <<0>>)

\* the slip of sending nothing for an empty result (as the WebUSB variant does)
ReplyTextSkipEmpty(text) ==
    IF text # <<>> /\ Trim(text) # <<>> THEN <<Trim(text) \o <<32>>>> ELSE <<>>

\* worker.onmessage case 'transcript', part_000 lines 65-71: the texts handed to
\* sendText (here always one)
ReplyText(text) ==
    IF text # <<>> /\ Trim(text) # <<>> THEN <<Trim(text) \o <<32>>>> ELSE << <<>> >>

\* the slip of displaying every result
ShownTextAlways(text) == <<text>>

\* part_000 lines 65-66: the lines handed to appendTranscript
ShownText(text) ==
    IF text # <<>> /\ Trim(text) # <<>> THEN <<text>> ELSE <<>>

\* what the engine may recognise: nothing, white space, " hé\n"
EngineTexts == {<<>>, <<32>>, <<32, 104, 233, 10>>}

-----------------------------------------------------------------------------
(* Audio: part_000 lines 176-200                                           *)

\* part_000 line 176
MinAudioBytes == 512

\* the slip of storing the 16-bit pattern unsigned
ToInt16Unsigned(v) == v % 65536

\* Int16Array element assignment: wrap into -32768..32767
ToInt16(v) == LET m == v % 65536 IN IF m >= 32768 THEN m - 65536 ELSE m

\* part_000 lines 189-193: little-endian pairs, a trailing odd byte dropped
Combined(audioBytes) ==
    [i \in 1..(Len(audioBytes) \div 2) |->
        ToInt16(audioBytes[2 * i - 1] + 256 * audioBytes[2 * i])]

\* the slip of comparing the length with 511
ValidateBelow511(audioBytes, ready) ==
    IF Len(audioBytes) < MinAudioBytes - 1 THEN "short"
    ELSE IF ~ready THEN "notready"
    ELSE "post"

\* the slip "audioBytes.length <= 512"
ValidateOffByOne(audioBytes, ready) ==
    IF Len(audioBytes) <= MinAudioBytes THEN "short"
    ELSE IF ~ready THEN "notready"
    ELSE "post"

\* the slip of leaving the modelReady check out
ValidateNoReadyCheck(audioBytes, ready) ==
    IF Len(audioBytes) < MinAudioBytes THEN "short" ELSE "post"

\* part_000 lines 176-186: what becomes of an ended recording
Validate(audioBytes, ready) ==
    IF Len(audioBytes) < MinAudioBytes THEN "short"
    ELSE IF ~ready THEN "notready"
    ELSE "post"

\* chunks reader.read() may deliver: none, 511 PCM bytes, one PCM byte and the first
\* half of the marker, the second half and a trailing byte, the marker alone
Bulk == [i \in 1..(MinAudioBytes - 1) |-> IF i % 2 = 1 THEN 16 ELSE 240]

MarkerHead == <<16, 255, 254>>

MarkerTail == <<253, 252, 16>>

Chunks == {<<>>, Bulk, MarkerHead, MarkerTail, EOF_MARKER}

\* The device sends a recording as PCM bytes and then the marker: the bulk comes
\* first, the marker's first half once, its second half only after the first.
DeviceSends(audioBytes, value) ==
    CASE value = Bulk       -> audioBytes = <<>>
      [] value = MarkerHead -> audioBytes \in {<<>>, Bulk}
      [] value = MarkerTail -> audioBytes \in {MarkerHead, Bulk \o MarkerHead}
      [] OTHER              -> TRUE

\* the ports the user can pick in Spec
Ports == 1..NumPorts

\* the ports of the machine; SpecConn has the user pick from all of them
Attached == 1..(NumPorts + 1)
Loops == 1..MaxLoops
Reqs  == 1..MaxReq

NoEv == [kind |-> "none"]

\* a request whose 'transcript' has not reached worker.onmessage
NotHandled == [text |-> <<>>, conn |-> FALSE, st |-> "none"]

\* no receiveLoop() activation: the slot of one that returned is used again
NoLoop == [pc |-> "unused", audioBytes |-> <<>>, recordingStarted |-> FALSE,
           rp |-> 0, alive |-> FALSE, born |-> 0]

\* a receiveLoop stuck for ever in `while (port && port.readable)`: getReader()
\* throws on the locked stream, the catch falls through and `continue` repeats
\* without an await, so no other task of the page runs again
Hung == \E l \in Loops : loops[l].pc = "spin"

\* requests posted whose 'transcript' / 'error' has not been handled
InFlight ==
    {toWorker[i].req : i \in 1..Len(toWorker)}
        \cup {fromWorker[i].req : i \in {j \in 1..Len(fromWorker) :
                                           fromWorker[j].type \in {"transcript", "error"}}}

-----------------------------------------------------------------------------
(* Spec: initial state, after init() and initWorker(), part_000 lines 235-250 *)

InitApp ==
    /\ port = 0
    /\ modelReady = FALSE
    /\ btn = "connect"
    /\ status = "Loading"
    /\ display = <<>>
    /\ listening = FALSE
    /\ connPc = "idle"
    /\ connPort = 0
    /\ discPc = "idle"
    /\ loops = [l \in Loops |-> NoLoop]
    /\ portOpen = [p \in Attached |-> FALSE]
    /\ rlock = [p \in Attached |-> 0]
    /\ wlock = [p \in Attached |-> 0]
    /\ evDisc = {}
    /\ wpc = "loading"
    /\ toWorker = <<>>
    /\ fromWorker = <<>>
    /\ nreq = 0
    /\ sess = 0
    /\ openedIn = [p \in Attached |-> 0]
    /\ written = <<>>
    /\ handled = [r \in Reqs |-> NotHandled]
    /\ failed = {}
    /\ orphan = {}
    /\ errShown = FALSE
    /\ everDown = FALSE
    /\ ev = NoEv

IdleFrame == fStream = <<>> /\ fPos = 0 /\ fBuf = <<>> /\ fEof = -1 /\ fReads = 0

IdleNorm ==
    /\ nAudio = <<>> /\ nPc = "done" /\ nI = 0
    /\ nPeak = 0 /\ nScale = <<0, 0>> /\ nOut = <<>>

IdlePcm == pBytes = <<>> /\ pPc = "done" /\ pCombined = <<>>

-----------------------------------------------------------------------------
(* SpecPcm: the byte-to-sample conversion of receiveLoop, lines 188-193,   *)
(* on its own.                                                             *)

PcmBytes == {0, 16, 32, 48, 64, 128, 255}

InitPcm ==
    /\ pBytes \in SeqsUpTo(PcmBytes, MaxPcm)
    /\ pPc = "convert"
    /\ pCombined = <<>>

\* lines 189-193
PcmConvert ==
    /\ pPc = "convert"
    /\ pCombined' = Combined(pBytes)
    /\ pPc' = "done"
    /\ UNCHANGED <<pBytes, frameVars, normVars, appVars, usbVars>>

NextPcm == PcmConvert

-----------------------------------------------------------------------------
(* receiveLoop: part_000 lines 137-202                                     *)

\* `while (port && port.readable)` and the head of an iteration up to the first
\* `await reader.read()`, lines 138-147, for loop l with the reader locks rl.
\* getReader() throws on a locked stream: line 167 catches it, port is set, the
\* buffer is empty, line 178 continues: the loop spins.
LoopEnter(l, prt, po, rl) ==
    IF prt # 0 /\ po[prt]
    THEN IF rl[prt] # 0
         THEN [pc |-> "spin", rp |-> 0, rl |-> rl]
         ELSE [pc |-> "reading", rp |-> prt, rl |-> [rl EXCEPT ![prt] = l]]
    ELSE [pc |-> "exited", rp |-> 0, rl |-> rl]

LoopAt(ent, born) ==
    [pc |-> ent.pc, audioBytes |-> <<>>, recordingStarted |-> FALSE,
     rp |-> ent.rp, alive |-> (ent.pc = "reading"), born |-> born]

\* reader.releaseLock() of line 172: frees the stream if it is still the port's
ReleaseReader(l) ==
    LET lp == loops[l]
    IN  IF lp.alive /\ rlock[lp.rp] = l THEN [rlock EXCEPT ![lp.rp] = 0] ELSE rlock

\* The inner loop was left with `bytes` (by the marker, by done, or by a read
\* error with port still set): finally, validation, dispatch, next iteration.
\* Lines 170-201 and 138-147.  st is the status set so far in this step, value
\* the chunk that ended the recording, started whether line 157 ran in this step.
EndRecording(l, bytes, how, st, value, started) ==
    LET fate == Validate(bytes, modelReady)
        ent  == LoopEnter(l, port, portOpen, ReleaseReader(l))
    IN  /\ fate = "post" => nreq < MaxReq
        /\ loops' = [loops EXCEPT ![l] = LoopAt(ent, loops[l].born)]
        /\ rlock' = ent.rl
        /\ status' = CASE fate = "short"    -> st
                       [] fate = "notready" -> "ModelNotReady"
                       [] fate = "post"     -> "Transcribing"
        /\ toWorker' = IF fate = "post"
                       THEN Append(toWorker, [req |-> nreq + 1,
                                              audioData |-> Combined(bytes),
                                              sess |-> sess])
                       ELSE toWorker
        /\ nreq' = IF fate = "post" THEN nreq + 1 ELSE nreq
        /\ ev' = [kind |-> "end", loop |-> l, how |-> how, len |-> Len(bytes),
                  value |-> value, started |-> started,
                  req |-> IF fate = "post" THEN nreq + 1 ELSE 0]
        /\ UNCHANGED <<pureVars, port, modelReady, btn, display, listening, connPc, connPort,
                       discPc, portOpen, wlock, evDisc, wpc, fromWorker, sess, openedIn,
                       written, handled, failed, orphan, errShown, everDown>>

\* the slip of leaving `!recordingStarted` out of line 155
StartsEveryChunk(recordingStarted, audioBytes) == Len(audioBytes) > 0

\* line 155: the first bytes of a recording have come
Starts(recordingStarted, audioBytes) == ~recordingStarted /\ Len(audioBytes) > 0

\* reader.read() of loop l resolves with a chunk: lines 147-166, then as above
ReadValue(l, value) ==
    LET lp     == loops[l]
        pushed == PushAll(lp.audioBytes, value)
        eofIdx == findEOF(pushed)
        starts == Starts(lp.recordingStarted, pushed)
        st     == IF starts THEN "Recording" ELSE status
    IN  /\ ~Hung
        /\ lp.pc = "reading" /\ lp.alive
        /\ DeviceSends(lp.audioBytes, value)
        /\ IF value = <<>>
           THEN /\ ev' = [kind |-> "empty", loop |-> l]
                /\ UNCHANGED <<pureVars, mainVars, platVars, nreq, sess, openedIn, written, handled, failed,
                               orphan, errShown, everDown>>
           ELSE IF eofIdx = -1
           THEN /\ loops' = [loops EXCEPT ![l] =
                                [lp EXCEPT !.audioBytes = pushed,
                                           !.recordingStarted =
                                               (starts \/ lp.recordingStarted)]]
                /\ status' = st
                /\ ev' = IF starts THEN [kind |-> "start", loop |-> l] ELSE NoEv
                /\ UNCHANGED <<pureVars, port, modelReady, btn, display, listening, connPc,
                               connPort, discPc, platVars, nreq, sess, openedIn, written, handled,
                               failed, orphan, errShown, everDown>>
           ELSE EndRecording(l, SliceTo(pushed, eofIdx), "eof", st, value, starts)

\* reader.read() of loop l settles after its stream died: { done: true } (line 148)
\* or a rejection (lines 167-169)
ReadDead(l, how) ==
    LET lp == loops[l]
    IN  /\ ~Hung
        /\ lp.pc = "reading" /\ ~lp.alive
        /\ IF how = "error" /\ port = 0
           THEN /\ loops' = [loops EXCEPT ![l] = LoopAt([pc |-> "exited", rp |-> 0],
                                                             lp.born)]
                /\ ev' = [kind |-> "break", loop |-> l, how |-> how,
                          len |-> Len(lp.audioBytes)]
                /\ UNCHANGED <<pureVars, port, modelReady, btn, status, display, listening,
                               connPc, connPort, discPc, platVars, nreq, sess, openedIn,
                               written, handled, failed, orphan, errShown, everDown>>
           ELSE EndRecording(l, lp.audioBytes, how, status, <<>>, FALSE)

-----------------------------------------------------------------------------
(* connect / disconnect / handleDisconnect: part_000 lines 92-132          *)

\* Platform events settle before the user has gone through the port chooser:
\* no read or write is still pending on a lost port, no 'disconnect' is queued.
Settled ==
    /\ evDisc = {}
    /\ \A l \in Loops : loops[l].pc = "reading" => loops[l].alive
    /\ \A p \in Attached : wlock[p] # 0 => portOpen[p]

\* connect() up to `await port.open()`, lines 94-97: the user picks port p
ConnectChoose(p) ==
    /\ ~Hung
    /\ btn = "connect" /\ connPc = "idle"
    /\ Settled
    /\ portOpen[p] \/ (/\ sess < MaxSess
                      /\ \E l \in Loops : loops[l].pc \in {"unused", "exited"})
    /\ port' = p
    /\ connPort' = p
    /\ connPc' = IF portOpen[p] THEN "failing" ELSE "opening"
    /\ ev' = NoEv
    /\ UNCHANGED <<pureVars, modelReady, btn, status, display, listening, discPc, loops,
                   platVars, nreq, sess, openedIn, written, handled, failed, orphan, errShown,
                   everDown>>

\* port.open() resolved: lines 99-109, and receiveLoop() up to its first await
ConnectOpened ==
    LET free == {k \in Loops : loops[k].pc \in {"unused", "exited"}}
        l    == CHOOSE k \in free : \A j \in free : k <= j
        po   == [portOpen EXCEPT ![connPort] = TRUE]
        ent  == LoopEnter(l, port, po, rlock)
    IN  /\ ~Hung
        /\ connPc = "opening" /\ ~portOpen[connPort]
        /\ free # {}
        /\ portOpen' = po
        /\ listening' = TRUE
        /\ btn' = "disconnect"
        /\ status' = IF modelReady THEN "ConnectedReady" ELSE "ConnectedLoading"
        /\ loops' = [loops EXCEPT ![l] = LoopAt(ent, sess + 1)]
        /\ rlock' = ent.rl
        /\ sess' = sess + 1
        /\ openedIn' = [openedIn EXCEPT ![connPort] = sess + 1]
        /\ connPc' = "idle"
        /\ ev' = NoEv
        /\ UNCHANGED <<pureVars, port, modelReady, display, connPort, discPc, wlock, evDisc, wpc,
                       toWorker, fromWorker, nreq, written, handled, failed, orphan,
                       errShown, everDown>>

\* port.open() rejected (the port is open already, or it cannot be opened):
\* lines 111-116; `port` keeps the port that was picked
ConnectFailed ==
    /\ ~Hung
    /\ connPc \in {"opening", "failing"}
    /\ status' = "ConnectionFailed"
    /\ connPc' = "idle"
    /\ ev' = NoEv
    /\ UNCHANGED <<pureVars, port, modelReady, btn, display, listening, connPort, discPc, loops,
                   platVars, nreq, sess, openedIn, written, handled, failed, orphan, errShown,
                   everDown>>

\* disconnect() up to `await p.close()`, lines 120-123.  close() rejects while a
\* stream of the port is locked, and the port then stays open.
DisconnectClick ==
    /\ ~Hung
    /\ btn = "disconnect" /\ discPc = "idle"
    /\ port # 0
    /\ port' = 0
    /\ portOpen' = IF portOpen[port] /\ rlock[port] = 0 /\ wlock[port] = 0
                   THEN [portOpen EXCEPT ![port] = FALSE]
                   ELSE portOpen
    /\ discPc' = "closing"
    /\ orphan' = orphan \cup InFlight
    /\ everDown' = TRUE
    /\ ev' = NoEv
    /\ UNCHANGED <<pureVars, modelReady, btn, status, display, listening, connPc, connPort,
                   loops, rlock, wlock, evDisc, wpc, toWorker, fromWorker, nreq, sess, openedIn,
                   written, handled, failed, errShown>>

\* handleDisconnect(), lines 127-132
HandleDisconnect ==
    /\ port' = 0
    /\ btn' = "connect"
    /\ status' = "Disconnected"
    /\ everDown' = TRUE

\* p.close() settled: line 124
DisconnectClosed ==
    /\ ~Hung
    /\ discPc = "closing"
    /\ HandleDisconnect
    /\ discPc' = "idle"
    /\ ev' = NoEv
    /\ UNCHANGED <<pureVars, modelReady, display, listening, connPc, connPort, loops, platVars,
                   nreq, sess, openedIn, written, handled, failed, orphan, errShown>>

\* the 'disconnect' event of navigator.serial for port p: lines 99-101
DisconnectEvent(p) ==
    /\ ~Hung
    /\ p \in evDisc
    /\ evDisc' = evDisc \ {p}
    /\ IF listening /\ p = port
       THEN HandleDisconnect /\ orphan' = orphan \cup InFlight
       ELSE UNCHANGED <<pureVars, port, btn, status, orphan, everDown>>
    /\ ev' = NoEv
    /\ UNCHANGED <<pureVars, modelReady, display, listening, connPc, connPort, discPc, loops,
                   portOpen, rlock, wlock, wpc, toWorker, fromWorker, nreq, sess, openedIn,
                   written, handled, failed, errShown>>

\* The device behind port p goes away: its streams die (pending reads and writes
\* will settle as failed or ended) and a 'disconnect' event is queued.
PortLost(p) ==
    /\ portOpen[p]
    /\ portOpen' = [portOpen EXCEPT ![p] = FALSE]
    /\ rlock' = [rlock EXCEPT ![p] = 0]
    /\ loops' = [l \in Loops |->
                   IF loops[l].pc = "reading" /\ loops[l].rp = p
                   THEN [loops[l] EXCEPT !.alive = FALSE]
                   ELSE loops[l]]
    /\ evDisc' = evDisc \cup {p}
    /\ everDown' = TRUE
    /\ ev' = NoEv
    /\ UNCHANGED <<pureVars, port, modelReady, btn, status, display, listening, connPc,
                   connPort, discPc, wlock, wpc, toWorker, fromWorker, nreq, sess, openedIn,
                   written, handled, failed, orphan, errShown>>

-----------------------------------------------------------------------------
(* The worker: part_001 lines 85-155                                       *)

\* init() ends: the pipeline is loaded, line 109 posts 'ready'
WorkerLoaded ==
    /\ wpc = "loading"
    /\ wpc' = "ready"
    /\ fromWorker' = Append(fromWorker, [type |-> "ready", text |-> <<>>, req |-> 0,
                                         sess |-> 0])
    /\ ev' = NoEv
    /\ UNCHANGED <<pureVars, mainVars, portOpen, rlock, wlock, evDisc, toWorker, histNoEv>>

\* The worker script fails while loading (its import cannot be resolved): the
\* Worker object gets an error event.
WorkerCrashes ==
    /\ wpc = "loading"
    /\ wpc' = "failed"
    /\ fromWorker' = Append(fromWorker, [type |-> "crash", text |-> <<>>, req |-> 0,
                                         sess |-> 0])
    /\ ev' = NoEv
    /\ UNCHANGED <<pureVars, mainVars, portOpen, rlock, wlock, evDisc, toWorker, histNoEv>>

\* self.onmessage case 'transcribe' and transcribe(), lines 113-141, the
\* transcriber resolving with result.text = text
WorkerTranscribes(text) ==
    /\ toWorker # <<>>
    /\ LET m == Head(toWorker)
       IN  fromWorker' =
             Append(fromWorker,
                    IF wpc # "ready"
                    THEN [type |-> "error", text |-> <<>>, req |-> m.req,
                          sess |-> m.sess]
                    ELSE [type |-> "transcript", text |-> Trim(text), req |-> m.req,
                          sess |-> m.sess])
    /\ toWorker' = Tail(toWorker)
    /\ ev' = NoEv
    /\ UNCHANGED <<pureVars, mainVars, portOpen, rlock, wlock, evDisc, wpc, histNoEv>>

\* the transcriber call of line 133 rejects: transcribe() has no catch, the
\* rejection of the async self.onmessage is unhandled and nothing is posted
WorkerInferenceRejects ==
    /\ toWorker # <<>>
    /\ wpc = "ready"
    /\ toWorker' = Tail(toWorker)
    /\ failed' = failed \cup {Head(toWorker).req}
    /\ ev' = NoEv
    /\ UNCHANGED <<pureVars, mainVars, portOpen, rlock, wlock, evDisc, wpc, fromWorker, nreq,
                   sess, openedIn, written, handled, orphan, errShown, everDown>>

-----------------------------------------------------------------------------
(* worker.onmessage / worker.onerror / sendText: part_000 lines 42-85, 205-219 *)

\* the statuses shown with the class 'error': lines 77, 84, 114
ErrorStatuses == {"ConnectionFailed", "WorkerError", "WorkerCrashed"}

\* `if (port) setStatus('Connected ...')` of lines 47 and 72
ConnectedStatus == IF port # 0 THEN "ConnectedReady" ELSE status

\* the slip of taking a writer without regard to the stream's lock
CanWriteNoLock == port # 0 /\ portOpen[port]

\* sendText can take the writer: line 206 passes and getWriter() does not throw
CanWrite == port # 0 /\ portOpen[port] /\ wlock[port] = 0

\* case 'ready', lines 44-48
OnReady ==
    /\ modelReady' = TRUE
    /\ status' = ConnectedStatus
    /\ ev' = NoEv
    /\ UNCHANGED <<pureVars, display, wlock, written, handled, errShown>>

\* case 'error', lines 75-78, and worker.onerror, lines 82-85
OnError(m) ==
    /\ status' = IF m.type = "crash" THEN "WorkerCrashed" ELSE "WorkerError"
    /\ errShown' = TRUE
    /\ ev' = NoEv
    /\ UNCHANGED <<pureVars, modelReady, display, wlock, written, handled>>

\* case 'transcript', lines 63-73, with sendText up to `await writer.write()`.
\* Without a pending write the handler runs to its end in this step; when
\* getWriter() throws on the locked stream, line 213 logs it and line 72 follows.
OnTranscript(m) ==
    LET texts == ReplyText(m.text)
        write == texts # <<>> /\ CanWrite
        threw == texts # <<>> /\ port # 0 /\ portOpen[port] /\ wlock[port] # 0
    IN  /\ display' = display \o ShownText(m.text)
        /\ ev' = IF threw THEN [kind |-> "sendfail", req |-> m.req] ELSE NoEv
        /\ IF write
           THEN /\ wlock' = [wlock EXCEPT ![port] = m.req]
                /\ written' = Append(written, [req |-> m.req, port |-> port,
                                               sess |-> sess, rsess |-> m.sess,
                                               bytes |-> FrameReply(texts[1])])
                /\ UNCHANGED <<pureVars, status>>
           ELSE /\ status' = ConnectedStatus
                /\ UNCHANGED <<pureVars, wlock, written>>
        /\ handled' = [handled EXCEPT ![m.req] =
                          [text |-> m.text,
                           conn |-> (port # 0 /\ portOpen[port]),
                           st   |-> IF write THEN "writing" ELSE "ended"]]
        /\ UNCHANGED <<pureVars, modelReady, errShown>>

\* the main thread handles the next message or error event of the worker
OnMessage ==
    /\ ~Hung
    /\ fromWorker # <<>>
    /\ LET m == Head(fromWorker)
       IN  CASE m.type = "ready"      -> OnReady
             [] m.type = "transcript" -> OnTranscript(m)
             [] OTHER                 -> OnError(m)
    /\ fromWorker' = Tail(fromWorker)
    /\ UNCHANGED <<pureVars, port, btn, listening, connPc, connPort, discPc, loops, portOpen,
                   rlock, evDisc, wpc, toWorker, nreq, sess, openedIn, failed, orphan, everDown>>

\* writer.write() on port p settled, fulfilled or (the port being lost)
\* rejected: lines 208-218, then line 72
WriteSettles(p) ==
    /\ ~Hung
    /\ wlock[p] # 0
    /\ wlock' = [wlock EXCEPT ![p] = 0]
    /\ status' = ConnectedStatus
    /\ handled' = [handled EXCEPT ![wlock[p]].st = "ended"]
    /\ ev' = IF portOpen[p] THEN NoEv ELSE [kind |-> "sendfail", req |-> wlock[p]]
    /\ UNCHANGED <<pureVars, port, modelReady, btn, display, listening, connPc, connPort,
                   discPc, loops, portOpen, rlock, evDisc, wpc, toWorker, fromWorker,
                   nreq, sess, openedIn, written, failed, orphan, errShown, everDown>>

-----------------------------------------------------------------------------
(* SpecUsb: the WebUSB page, sw.js lines 44-324: receiveLoop over one       *)
(* connection, fed one stream in every splitting into bulk transfers, the   *)
(* worker's answers and sendText.                                           *)

\* isEOF(dataView), sw.js lines 78-86: the transfer begins with the marker
isEOF(data) == Len(data) >= 4 /\ MarkerAt(data, 0)

\* new Int16Array(buffer) of lines 222 and 241 throws a RangeError when the
\* byte length is not a multiple of 2
Int16ArrayThrows(data) == Len(data) % 2 = 1

\* new Int16Array(buffer): little-endian pairs
Int16ArrayOf(data) == Combined(data)

\* lines 254-261: all chunks in one flat array
RECURSIVE Concatenated(_)
Concatenated(chunks) ==
    IF chunks = <<>> THEN <<>> ELSE Head(chunks) \o Concatenated(Tail(chunks))

\* payload bytes: a PCM byte and the marker's first byte
PayloadBytes == {16, 255}

\* the streams of a device: a recording, the sentinel, what it sends next
UsbStreams ==
    {pre \o EOF_MARKER \o post : pre \in SeqsUpTo(PayloadBytes, MaxPayload),
                                 post \in SeqsUpTo({16}, MaxAfter)}

IdleUsb ==
    /\ device = FALSE /\ uModelReady = FALSE /\ recording = FALSE
    /\ uStatus = "Disconnected" /\ audioChunks = <<>> /\ uPc = "exited"
    /\ uStream = <<>> /\ uPos = 0 /\ uCut = <<>> /\ uPosted = <<>>
    /\ uAnswered = 0 /\ uResults = <<>> /\ uHandled = <<>>

\* the page after init() and a connect() that succeeded while the model was
\* loading (lines 139-180): receiveLoop awaits its first transferIn
InitUsb ==
    /\ device = TRUE /\ uModelReady = FALSE /\ recording = FALSE
    /\ uStatus = "ConnectedLoading" /\ audioChunks = <<>> /\ uPc = "first"
    /\ uStream \in UsbStreams /\ uPos = 0 /\ uCut = <<>> /\ uPosted = <<>>
    /\ uAnswered = 0 /\ uResults = <<>> /\ uHandled = <<>>

\* lines 250-276: the drain loop was left with the chunks `chunks`
UsbFinish(chunks) ==
    /\ recording' = FALSE
    /\ audioChunks' = <<>>
    /\ uPc' = "first"
    /\ IF uModelReady
       THEN /\ uStatus' = "Transcribing"
            /\ uPosted' = Append(uPosted, Concatenated(chunks))
       ELSE /\ uStatus' = "ModelNotReady"
            /\ UNCHANGED uPosted

\* device.transferIn resolves with the next n bytes of the stream:
\* lines 214-225 when waiting for the first chunk, lines 235-243 when draining
UsbTransferIn(n) ==
    LET data == SubSeq(uStream, uPos + 1, uPos + n)
    IN  /\ device
        /\ uPc \in {"first", "drain"}
        /\ uPos + n <= Len(uStream)
        /\ uPos' = uPos + n
        /\ IF uPc = "first"
           THEN IF isEOF(data)
                THEN /\ uCut' = Append(uCut, uPos)
                     /\ UNCHANGED <<recording, uStatus, audioChunks, uPc, uPosted>>
                ELSE /\ uStatus' = "Recording"
                     /\ UNCHANGED <<uCut, uPosted>>
                     /\ IF Int16ArrayThrows(data)
                        THEN /\ recording' = FALSE
                             /\ UNCHANGED <<audioChunks, uPc>>
                        ELSE /\ recording' = TRUE
                             /\ audioChunks' = <<Int16ArrayOf(data)>>
                             /\ uPc' = "drain"
           ELSE IF isEOF(data)
                THEN /\ uCut' = Append(uCut, uPos)
                     /\ UsbFinish(audioChunks)
                ELSE IF Int16ArrayThrows(data)
                THEN /\ UNCHANGED uCut
                     /\ UsbFinish(audioChunks)
                ELSE /\ audioChunks' = Append(audioChunks, Int16ArrayOf(data))
                     /\ UNCHANGED <<recording, uStatus, uPc, uCut, uPosted>>
        /\ UNCHANGED <<device, uModelReady, uStream, uAnswered, uResults, uHandled,
                       frameVars, normVars, pcmVars, appVars>>

\* the pending transferIn rejects after the device is gone: `if (!device) break`
\* of lines 227 and 245
UsbTransferRejects ==
    /\ ~device
    /\ uPc \in {"first", "drain"}
    /\ uPc' = "exited"
    /\ UNCHANGED <<device, uModelReady, recording, uStatus, audioChunks, uStream, uPos,
                   uCut, uPosted, uAnswered, uResults, uHandled,
                   frameVars, normVars, pcmVars, appVars>>

\* disconnect() or the 'disconnect' event: handleDisconnect(), lines 192-200
UsbHandleDisconnect ==
    /\ device
    /\ device' = FALSE
    /\ recording' = FALSE
    /\ uStatus' = "Disconnected"
    /\ UNCHANGED <<uModelReady, audioChunks, uPc, uStream, uPos, uCut, uPosted,
                   uAnswered, uResults, uHandled, frameVars, normVars, pcmVars, appVars>>

\* worker.onmessage case 'ready', lines 93-97
UsbOnReady ==
    /\ ~uModelReady
    /\ uModelReady' = TRUE
    /\ uStatus' = "ConnectedReady"
    /\ UNCHANGED <<device, recording, audioChunks, uPc, uStream, uPos, uCut, uPosted,
                   uAnswered, uResults, uHandled, frameVars, normVars, pcmVars, appVars>>

\* the worker answers the next 'transcribe' message: part_001 lines 113-141
UsbWorkerTranscribes(text) ==
    /\ uAnswered < Len(uPosted)
    /\ uAnswered' = uAnswered + 1
    /\ uResults' = Append(uResults, Trim(text))
    /\ UNCHANGED <<device, uModelReady, recording, uStatus, audioChunks, uPc, uStream,
                   uPos, uCut, uPosted, uHandled, frameVars, normVars, pcmVars, appVars>>

\* sendText(text), lines 280-289: the transferOut calls it makes
UsbSendText(text) == IF device THEN <<Utf8(text \o <<0>>)>> ELSE <<>>

\* case 'transcript', lines 113-119: `if (data.text)` is false for ''
UsbTransfersFor(text) == IF text # <<>> THEN UsbSendText(text \o <<32>>) ELSE <<>>

\* worker.onmessage case 'transcript', lines 113-119, with sendText
UsbOnTranscript ==
    /\ uResults # <<>>
    /\ LET text == Head(uResults)
       IN  uHandled' = Append(uHandled, [text |-> text, conn |-> device,
                                         out |-> UsbTransfersFor(text)])
    /\ uResults' = Tail(uResults)
    /\ uStatus' = "ConnectedReady"
    /\ UNCHANGED <<device, uModelReady, recording, audioChunks, uPc, uStream, uPos,
                   uCut, uPosted, uAnswered, frameVars, normVars, pcmVars, appVars>>

NextUsb ==
    \/ \E n \in 1..(MaxPayload + 4 + MaxAfter) : UsbTransferIn(n)
    \/ UsbTransferRejects
    \/ UsbHandleDisconnect
    \/ UsbOnReady
    \/ \E text \in EngineTexts : UsbWorkerTranscribes(text)
    \/ UsbOnTranscript

-----------------------------------------------------------------------------
(* Specifications *)

NextApp ==
    \/ \E l \in Loops, value \in Chunks : ReadValue(l, value)
    \/ \E l \in Loops, how \in {"done", "error"} : ReadDead(l, how)
    \/ \E p \in Ports : ConnectChoose(p)
    \/ ConnectOpened
    \/ ConnectFailed
    \/ DisconnectClick
    \/ DisconnectClosed
    \/ \E p \in Attached : DisconnectEvent(p)
    \/ \E p \in Attached : PortLost(p)
    \/ WorkerLoaded
    \/ WorkerCrashes
    \/ \E text \in EngineTexts : WorkerTranscribes(text)
    \/ WorkerInferenceRejects
    \/ OnMessage
    \/ \E p \in Attached : WriteSettles(p)

\* the page after init(), no stream or buffer of the two function runs
Init == InitApp /\ IdleFrame /\ IdleNorm /\ IdlePcm /\ IdleUsb

Spec == Init /\ [][NextApp]_vars

\* one run of the inner read loop on its own
InitFrameRun == InitFrame /\ IdleNorm /\ IdlePcm /\ InitApp /\ IdleUsb

SpecFrame == InitFrameRun /\ [][NextFrame]_vars

\* one run of transcribe() on its own
InitNormRun == InitNorm /\ IdleFrame /\ IdlePcm /\ InitApp /\ IdleUsb

SpecNorm == InitNormRun /\ [][NextNorm]_vars

\* The page with every port of the machine to pick from, while the model is
\* still loading: connect, disconnect and the receive loops.
NextConn ==
    \/ \E l \in Loops, value \in Chunks : ReadValue(l, value)
    \/ \E l \in Loops, how \in {"done", "error"} : ReadDead(l, how)
    \/ \E p \in Attached : ConnectChoose(p)
    \/ ConnectOpened
    \/ ConnectFailed
    \/ DisconnectClick
    \/ DisconnectClosed
    \/ \E p \in Attached : DisconnectEvent(p)
    \/ \E p \in Attached : PortLost(p)

SpecConn == Init /\ [][NextConn]_vars

\* one run of the conversion on its own
InitPcmRun == InitPcm /\ IdleFrame /\ IdleNorm /\ InitApp /\ IdleUsb

SpecPcm == InitPcmRun /\ [][NextPcm]_vars

\* the WebUSB page on its own
InitUsbRun == InitUsb /\ IdleFrame /\ IdleNorm /\ IdlePcm /\ InitApp

SpecUsb == InitUsbRun /\ [][NextUsb]_vars

\* The page over a connection that, once opened, stays open, with a worker
\* that loads and answers every request: no disconnect, no loss of the
\* device, no failing worker.
NextLive ==
    \/ \E l \in Loops, value \in Chunks : ReadValue(l, value)
    \/ \E p \in Ports : ConnectChoose(p)
    \/ ConnectOpened
    \/ ConnectFailed
    \/ WorkerLoaded
    \/ \E text \in EngineTexts : WorkerTranscribes(text)
    \/ OnMessage
    \/ \E p \in Attached : WriteSettles(p)

\* the worker answers (part_001 lines 144-155), the event loop delivers its
\* messages (part_000 line 42) and a pending write settles (line 208)
SpecLive ==
    /\ Init
    /\ [][NextLive]_vars
    /\ WF_vars(\E text \in EngineTexts : WorkerTranscribes(text))
    /\ WF_vars(OnMessage)
    /\ WF_vars(\E p \in Attached : WriteSettles(p))

-----------------------------------------------------------------------------
(* Properties                                                              *)

\* the offsets at which the four sentinel bytes stand in a byte sequence
Sentinels(bytes) ==
    {k \in 0..(Len(bytes) - 4) : SubSeq(bytes, k + 1, k + 4) = EOF_MARKER}

\* C1: however the inbound stream is cut into chunks, the inner loop ends at
\* the first occurrence of the sentinel in the concatenated stream and the
\* recording is exactly the bytes before it; while no sentinel has been
\* delivered in full the loop has kept every byte and has not ended.
C1_FramingChunkInvariant ==
    /\ fEof # -1 =>
          /\ fEof \in Sentinels(fStream)
          /\ \A k \in Sentinels(fStream) : fEof <= k
          /\ fBuf = SubSeq(fStream, 1, fEof)
    /\ fEof = -1 =>
          /\ Sentinels(SubSeq(fStream, 1, fPos)) = {}
          /\ fBuf = SubSeq(fStream, 1, fPos)

\* a recording was ended by a sentinel whose four bytes came in four chunks
C1_SentinelSplitAcrossChunks ==
    /\ fEof > 0
    /\ fReads = fPos
    /\ fPos = fEof + 4
    /\ fPos < Len(fStream)

\* the largest magnitude among the samples, 0 for an empty buffer
TruePeak(audioData) ==
    LET mags == {IF audioData[i] < 0 THEN -audioData[i] ELSE audioData[i] :
                     i \in 1..Len(audioData)}
    IN  IF mags = {} THEN 0 ELSE CHOOSE m \in mags : \A x \in mags : x <= m

\* C7: for every Int16 buffer the scale has a nonzero divisor, it is
\* 1/32768 when the peak magnitude is at most 50 (0 and the empty buffer
\* included), and every sample handed to the engine lies in [-1, 1].
C7_NormalizedWithinUnit ==
    /\ nPc \in {"convert", "done"} =>
          /\ nScale[2] > 0
          /\ TruePeak(nAudio) <= NoiseFloor => nScale = <<1, Int16Scale>>
    /\ \A i \in 1..Len(nOut) :
          /\ nOut[i][2] > 0
          /\ -nOut[i][2] <= nOut[i][1]
          /\ nOut[i][1] <= nOut[i][2]
    /\ nPc = "done" => Len(nOut) = Len(nAudio)

\* an all-zero buffer was converted with the scale 1/32768
C7_SilentBufferConverted ==
    /\ nPc = "done"
    /\ Len(nAudio) = MaxSamples
    /\ \A i \in 1..Len(nAudio) : nAudio[i] = 0
    /\ nScale = <<1, Int16Scale>>
    /\ Len(nOut) = Len(nAudio)

\* the positions in `written` of the replies to request r
RepliesFor(r) == {i \in 1..Len(written) : written[i].req = r}

\* C2: while the connection stays up, every dispatched recording whose result
\* was handled has got exactly one framed reply, and the replies were
\* written in the order in which the recordings were dispatched.
C2_OneReplyPerRecordingInOrder ==
    ~everDown =>
        /\ \A r \in Reqs : handled[r].st = "ended" => Cardinality(RepliesFor(r)) = 1
        /\ \A i, j \in 1..Len(written) : i < j => written[i].req < written[j].req

\* C3: at most one transcription request is in flight at any time.
C3_AtMostOneInFlight == Cardinality(InFlight) <= 1

\* after the step that ended a recording, loop l is at the head of its next
\* iteration with an empty buffer, or has returned because the connection is gone
NextIteration(l) ==
    /\ loops'[l].audioBytes = <<>>
    /\ ~loops'[l].recordingStarted
    /\ IF port' # 0 /\ portOpen'[port']
       THEN loops'[l].pc \in {"reading", "spin"}
       ELSE loops'[l].pc = "exited"

\* C4: a recording ended by the sentinel with fewer than 512 bytes is
\* dropped: no request is posted to the worker, no reply is written, and the
\* loop goes on to its next iteration with an empty buffer.
C4_ShortRecordingDiscarded ==
    [][(ev'.kind = "end" /\ ev'.how = "eof" /\ ev'.len < MinAudioBytes) =>
          /\ toWorker' = toWorker
          /\ nreq' = nreq
          /\ written' = written
          /\ wlock' = wlock
          /\ NextIteration(ev'.loop)]_vars

\* a recording of 511 bytes was just dropped with the model ready, and the
\* loop is reading again
C4_Dropped511Bytes ==
    /\ ev.kind = "end" /\ ev.how = "eof" /\ ev.len = MinAudioBytes - 1
    /\ modelReady
    /\ toWorker = <<>> /\ nreq = 0
    /\ loops[ev.loop].pc = "reading" /\ loops[ev.loop].audioBytes = <<>>

\* C5: a transcript that is empty after trimming, handled while the
\* connection is open, gets exactly one reply, the single byte 0x00, and no
\* line on the display.
C5_EmptyTranscriptOneNul ==
    /\ \A r \in Reqs :
          (handled[r].st # "none" /\ handled[r].conn /\ Trim(handled[r].text) = <<>>) =>
              /\ Cardinality(RepliesFor(r)) = 1
              /\ \A i \in RepliesFor(r) : written[i].bytes = <<0>>
    /\ \A i \in 1..Len(display) : Trim(display[i]) # <<>>

\* C6: the result of a request that was in flight when the transport
\* disconnected is never written to any transport.
C6_NoReplyAfterDisconnect ==
    \A i \in 1..Len(written) : written[i].req \notin orphan

\* C8: a transcript t that is non-empty after trimming, handled while the
\* connection is open, gets exactly one reply: the UTF-8 bytes of the
\* trimmed t, then 0x20, then 0x00.
C8_ReplyIsTrimmedTextSpaceNul ==
    \A r \in Reqs :
        (handled[r].st # "none" /\ handled[r].conn /\ Trim(handled[r].text) # <<>>) =>
            /\ Cardinality(RepliesFor(r)) = 1
            /\ \A i \in RepliesFor(r) :
                  written[i].bytes = Utf8(Trim(handled[r].text)) \o <<32, 0>>

\* C9: a recording of at least 512 bytes that ends while the model is not
\* ready is dropped with the status "model not ready": nothing is posted,
\* nothing is written, the loop goes on; and a request is only ever posted
\* once the worker's 'ready' has been handled.
C9_NoDispatchBeforeReady ==
    [][/\ (ev'.kind = "end" /\ ev'.len >= MinAudioBytes /\ ~modelReady) =>
             /\ toWorker' = toWorker
             /\ nreq' = nreq
             /\ written' = written
             /\ wlock' = wlock
             /\ status' = "ModelNotReady"
             /\ NextIteration(ev'.loop)
       /\ nreq' # nreq => (modelReady /\ wpc = "ready")]_vars

\* a 512-byte recording was just dropped because the model was not ready
C9_DroppedWhileLoading ==
    /\ ev.kind = "end" /\ ev.how = "eof" /\ ev.len = MinAudioBytes
    /\ ~modelReady
    /\ status = "ModelNotReady"
    /\ toWorker = <<>> /\ nreq = 0
    /\ loops[ev.loop].pc = "reading"

\* C10: when the engine fails on a request, an error status is surfaced and
\* no reply is written for that request.
C10_EngineFailureSurfaced ==
    (/\ failed # {}
     /\ \A i \in 1..Len(fromWorker) : fromWorker[i].type \notin {"error", "crash"}) =>
        /\ errShown
        /\ \A r \in failed : RepliesFor(r) = {}

\* the requests whose sendText holds the writer of port p, its write pending
Writers(p) ==
    {r \in Reqs : /\ handled[r].st = "writing"
                  /\ \E i \in RepliesFor(r) : written[i].port = p}

\* C11: at most one sendText holds the writer of a port's writable stream,
\* it is the one the stream is locked by, and every write() call hands over
\* one whole reply (all of its text, then the 0x00 that ends it), so no byte
\* of another reply can come in between.
C11_SingleWriterWholeReplies ==
    /\ \A p \in Attached :
          /\ Cardinality(Writers(p)) <= 1
          /\ \A r \in Writers(p) : wlock[p] = r
    /\ \A i \in 1..Len(written) :
          LET b == written[i].bytes
              t == Trim(handled[written[i].req].text)
          IN  /\ b[Len(b)] = 0
              /\ SubSeq(b, 1, Len(b) - 1) =
                    IF t = <<>> THEN <<>> ELSE Utf8(t) \o <<32>>

\* a second transcript was handled to its end while the write of the first
\* reply was still pending
C11_SecondSendWhileWriting ==
    /\ handled[1].st = "writing"
    /\ handled[2].st = "ended"
    /\ handled[2].conn
    /\ Len(written) = 1

\* C12: a recording of n bytes becomes floor(n/2) samples, sample i being the
\* signed 16-bit value of byte 2i + 256 * byte 2i+1, a trailing odd byte is
\* dropped; the bytes 10 20 30 40 become 0x2010, 0x4030.
C12_LittleEndianSamples ==
    pPc = "done" =>
        /\ Len(pCombined) = Len(pBytes) \div 2
        /\ 2 * Len(pCombined) \in {Len(pBytes), Len(pBytes) - 1}
        /\ \A i \in 1..Len(pCombined) :
              LET u == pBytes[2 * i - 1] + 256 * pBytes[2 * i]
              IN  /\ pCombined[i] \in -32768..32767
                  /\ pCombined[i] \in {u, u - 65536}
        /\ pBytes = <<16, 32, 48, 64>> => pCombined = <<8208, 16432>>

\* three bytes were converted: one negative sample, the odd byte dropped
C12_OddByteDropped ==
    /\ pPc = "done"
    /\ pBytes = <<255, 255, 16>>
    /\ pCombined = <<-1>>

\* C13: when a chunk completes the sentinel, the recording that is validated
\* and dispatched is exactly the bytes accumulated before the first
\* sentinel; the sentinel and what followed it in the chunk are dropped, and
\* the next recording starts from an empty buffer.
C13_CutAtSentinelRestDropped ==
    [][(ev'.kind = "end" /\ ev'.how = "eof") =>
          LET l      == ev'.loop
              pushed == loops[l].audioBytes \o ev'.value
              ks     == Sentinels(pushed)
          IN  /\ ks # {}
              /\ \A k \in ks : ev'.len <= k
              /\ ev'.len \in ks
              /\ loops'[l].audioBytes = <<>>
              /\ ~loops'[l].recordingStarted
              /\ ev'.req # 0 =>
                    /\ toWorker' = Append(toWorker, toWorker'[Len(toWorker')])
                    /\ toWorker'[Len(toWorker')].audioData =
                          Combined(SubSeq(pushed, 1, ev'.len))]_vars

\* a recording of 512 bytes was just posted, cut from a chunk that carried
\* the rest of the sentinel and one more byte; the loop reads with an empty buffer
C13_TrailingByteDropped ==
    /\ ev.kind = "end" /\ ev.how = "eof"
    /\ ev.value = MarkerTail
    /\ ev.len = MinAudioBytes
    /\ ev.req = 1
    /\ loops[ev.loop].pc = "reading"
    /\ loops[ev.loop].audioBytes = <<>>

\* C14: when a recording is ended by the transport going away (the read
\* reports done, or fails) the bytes accumulated so far are dropped: no
\* 'transcribe' message is posted for them.
C14_NoDispatchAfterTransportLoss ==
    (ev.kind \in {"end", "break"} /\ ev.how \in {"done", "error"}) =>
        (ev.kind = "end" => ev.req = 0)

\* C15: a reply is only ever written on the connection on which its recording
\* was received: the result of a request of an earlier connection is not
\* written to a connection opened later.
C15_ReplyOnOwnConnection ==
    \A i \in 1..Len(written) : written[i].sess = written[i].rsess

\* the receiveLoop activations that hold a reader and await reader.read()
Reading == {l \in Loops : loops[l].pc = "reading" /\ loops[l].alive}

\* C16: at most one receiveLoop reads from the current transport, and a loop
\* started for an earlier connection never holds the reader of a port that
\* was opened by a later connect.
C16_OneLoopPerConnection ==
    /\ Cardinality({l \in Reading : port # 0 /\ loops[l].rp = port}) <= 1
    /\ \A l \in Reading : openedIn[loops[l].rp] <= loops[l].born

\* C17: a failed reader.read() ends the session: the bytes gathered so far are
\* not dispatched, and the page is in the Disconnected state (port cleared,
\* button back to Connect) when the loop has dealt with the rejection.
C17_ReadErrorEndsSession ==
    (ev.kind \in {"end", "break"} /\ ev.how = "error") =>
        /\ ev.kind = "end" => ev.req = 0
        /\ port = 0
        /\ btn = "connect"

\* C18: a reply whose write failed (getWriter() or write() threw) is not
\* written again, the failure is shown as a status, the stream's lock is not
\* left with the failed send, and the loop can go on receiving.
C18_WriteFailureSurfaced ==
    ev.kind = "sendfail" =>
        /\ status \in ErrorStatuses
        /\ \A p \in Attached : wlock[p] # ev.req
        /\ Cardinality(RepliesFor(ev.req)) <= 1

\* line 157 ran for loop l in the step that led to the event e
StartedBy(e, l) ==
    /\ e.kind \in {"start", "end"}
    /\ e.loop = l
    /\ e.kind = "end" => e.started

\* C19: 'Recording' is announced exactly in the step in which the first bytes
\* of a recording reach the empty buffer, hence once per recording; a read
\* that brings no bytes leaves the buffer, the flag and the status alone.
C19_RecordingStartsOnFirstBytes ==
    [][ /\ \A l \in Loops :
              /\ StartedBy(ev', l) =>
                    /\ loops[l].pc = "reading"
                    /\ loops[l].audioBytes = <<>>
                    /\ ~loops[l].recordingStarted
                    /\ ev'.kind = "start" =>
                          /\ loops'[l].audioBytes # <<>>
                          /\ loops'[l].recordingStarted
                          /\ status' = "Recording"
              /\ (loops[l].audioBytes = <<>> /\ loops'[l].audioBytes # <<>>) =>
                    (ev'.kind = "start" /\ ev'.loop = l)
              /\ loops'[l].recordingStarted <=> (loops'[l].audioBytes # <<>>)
        /\ ev'.kind = "empty" => (loops' = loops /\ status' = status)
      ]_vars

\* the first bytes of a recording have just come and 'Recording' is shown
C19_FirstChunkStartsRecording ==
    /\ ev.kind = "start"
    /\ status = "Recording"
    /\ loops[ev.loop].recordingStarted
    /\ loops[ev.loop].audioBytes # <<>>

\* C20: outside a running connect(), `port` is set and a 'Connected' status is
\* shown only between a port.open() that succeeded and the next disconnect:
\* after an open() that failed the page is as before the click.
C20_ConnectedOnlyAfterOpen ==
    (connPc = "idle" /\ btn = "connect") =>
        /\ port = 0
        /\ status \notin {"ConnectedReady", "ConnectedLoading"}

\* C21: a 'transcribe' message is posted only in a step in which the sentinel
\* was seen: a recording cut off by done or by a failed read is not posted,
\* whatever its length.
C21_DispatchOnlyAtSentinel ==
    (ev.kind = "end" /\ ev.req # 0) =>
        /\ ev.how = "eof"
        /\ ev.value # <<>>

\* C22: over a connection that stays open and with a worker that answers,
\* every recording that was dispatched is in the end answered by a reply
\* ending in a 0 byte written to the port, also when a result arrives while
\* the write of an earlier reply is pending.
C22_EveryDispatchAnswered ==
    \A r \in Reqs :
        (nreq >= r) ~> (\E i \in RepliesFor(r) :
                           written[i].bytes[Len(written[i].bytes)] = 0)

\* C23: however the stream is split into transfers, once the whole sentinel
\* has been delivered the recording has been ended at it, and what was posted
\* for it is the samples of exactly the bytes before the sentinel.
C23_SentinelFoundInAnyChunking ==
    LET eof == findEOF(uStream)
    IN  (uPc # "exited" /\ device /\ uPos >= eof + 4) =>
            /\ uCut # <<>> /\ uCut[1] = eof
            /\ uPosted # <<>> => uPosted[1] = Int16ArrayOf(SliceTo(uStream, eof))

\* C24: every 'transcript' handled while the device is connected makes exactly
\* one transferOut, its bytes end in 0, and for the empty text they are the
\* single byte 0.
C24_OneTransferPerTranscript ==
    \A i \in 1..Len(uHandled) :
        uHandled[i].conn =>
            /\ Len(uHandled[i].out) = 1
            /\ LET bytes == uHandled[i].out[1]
               IN  /\ bytes[Len(bytes)] = 0
                   /\ uHandled[i].text = <<>> => bytes = <<0>>

=============================================================================
